---------------------------- MODULE Spec2Model ----------------------------
(***************************************************************************)
(* Frequency-response capture (FrequencyResponseCapture.py) and the        *)
(* interactive Bode plot (interactivePlot.py) as state machines.           *)
(*                                                                         *)
(* Number representation.  TLC integers are 32 bit, the validity guard of  *)
(* the sweep compares against 10E9 = 10^10, and Python works on doubles:   *)
(*   - a measured frequency or amplitude is an integer counting units of   *)
(*     20 (Hz or Vpp), so that 10E9 is TenE9 = 500000000 units;            *)
(*   - the loop frequency curr_freq and the step are exact rationals kept  *)
(*     as integers scaled by Scale = points-1 (Hz * Scale);                *)
(*   - a number in the data file or in the plot arrays is an integer       *)
(*     count of tenths (one fractional digit);                             *)
(*   - amplitudes are powers of ten of each other, so that the gain        *)
(*     20*log10(ampl2/ampl1) is a whole number of dB.                      *)
(* Text is a sequence of one-character strings.                            *)
(***************************************************************************)
EXTENDS Integers, Sequences, FiniteSets, TLC

(***************************************************************************)
(* Bounds of the model.                                                    *)
(***************************************************************************)
MaxPoints == 3
MaxRows == 3
MaxData == 4

(***************************************************************************)
(* Text: formatting and parsing of floats, splitting of lines.             *)
(***************************************************************************)
Digits == <<"0", "1", "2", "3", "4", "5", "6", "7", "8", "9">>

Abs(x) == IF x < 0 THEN -x ELSE x

RECURSIVE NatChars(_)
NatChars(n) ==
  IF n < 10 THEN <<Digits[n + 1]>>
  ELSE Append(NatChars(n \div 10), Digits[(n % 10) + 1])

\* the sign left out
FormatFloatNoSign(t) ==
  NatChars(Abs(t) \div 10) \o <<".">> \o <<Digits[(Abs(t) % 10) + 1]>>

\* repr() of a double holding t tenths: sign, integer part, ".", one digit.
FormatFloat(t) ==
  (IF t < 0 THEN <<"-">> ELSE <<>>)
    \o NatChars(Abs(t) \div 10) \o <<".">> \o <<Digits[(Abs(t) % 10) + 1]>>

IsDigit(c) == c \in {"0", "1", "2", "3", "4", "5", "6", "7", "8", "9"}

DigitVal(c) == CHOOSE d \in 0..9 : Digits[d + 1] = c

RECURSIVE StripChars(_, _)
StripChars(s, drop) ==
  IF s = <<>> THEN s
  ELSE IF Head(s) \in drop THEN StripChars(Tail(s), drop)
  ELSE IF s[Len(s)] \in drop THEN StripChars(SubSeq(s, 1, Len(s) - 1), drop)
  ELSE s

RECURSIVE NatValue(_)
NatValue(s) ==
  IF s = <<>> THEN 0 ELSE 10 * NatValue(SubSeq(s, 1, Len(s) - 1)) + DigitVal(s[Len(s)])

AllDigits(s) == \A i \in 1..Len(s) : IsDigit(s[i])

DotIndex(s) == IF \E i \in 1..Len(s) : s[i] = "."
               THEN CHOOSE i \in 1..Len(s) : s[i] = "." /\ \A j \in 1..(i - 1) : s[j] # "."
               ELSE 0

\* float(text): surrounding white space is dropped, then [sign] digits [. digits]
\* with at least one digit.  The value is kept to one fractional digit.
ParseFloat(text) ==
  LET s == StripChars(text, {" ", "\n"})
      neg == s # <<>> /\ Head(s) = "-"
      signed == s # <<>> /\ Head(s) \in {"-", "+"}
      body == IF signed THEN Tail(s) ELSE s
      dot == DotIndex(body)
      ip == IF dot = 0 THEN body ELSE SubSeq(body, 1, dot - 1)
      fp == IF dot = 0 THEN <<>> ELSE SubSeq(body, dot + 1, Len(body))
      ok == AllDigits(ip) /\ AllDigits(fp) /\ Len(ip) + Len(fp) > 0
      mag == 10 * NatValue(ip) + (IF fp = <<>> THEN 0 ELSE DigitVal(fp[1]))
  IN  IF ok THEN [ok |-> TRUE, val |-> IF neg THEN -mag ELSE mag]
      ELSE [ok |-> FALSE, val |-> 0]

\* str.split(", "): the text between the occurrences of ", " from left to
\* right (two occurrences of ", " never overlap)
SplitCommaSpace(s) ==
  LET seps == {i \in 1..(Len(s) - 1) : s[i] = "," /\ s[i + 1] = " "}
      n == Cardinality(seps)
      Nth(k) == CHOOSE i \in seps : Cardinality({j \in seps : j < i}) = k - 1
  IN  [k \in 1..(n + 1) |->
         SubSeq(s, IF k = 1 THEN 1 ELSE Nth(k - 1) + 2,
                   IF k = n + 1 THEN Len(s) ELSE Nth(k) - 1)]

RECURSIVE JoinCommaSpace(_)
JoinCommaSpace(fields) ==
  IF Len(fields) = 0 THEN <<>>
  ELSE IF Len(fields) = 1 THEN fields[1]
  ELSE fields[1] \o <<",", " ">> \o JoinCommaSpace(Tail(fields))

HeaderLine ==
  <<
    "C", "H", "1", "_", "F", "R", "E", "Q", " ", "[", "H", "z", "]", ",",
    " ", "C", "H", "1", "_", "A", "M", "P", "L", " ", "[", "V", "p", "p",
    "]", ",", " ", "C", "H", "2", "_", "F", "R", "E", "Q", " ", "[", "H",
    "z", "]", ",", " ", "C", "H", "2", "_", "A", "M", "P", "L", " ", "[",
    "V", "p", "p", "]", ",", " ", "P", "H", "A", "S", "E", "_", "D", "I",
    "F", "F", " ", "[", "D", "e", "g", "]", ",", " ", "G", "A", "I", "N",
    " ", "[", "d", "B", "]", "\n"
  >>

\* f"{freq1}, {ampl1}, {freq2}, {ampl2}, {phase_diff}, {gain}\n" on tenths
FormatRow(f1, a1, f2, a2, pd, gain) ==
  JoinCommaSpace(<<FormatFloat(f1), FormatFloat(a1), FormatFloat(f2),
                   FormatFloat(a2), FormatFloat(pd), FormatFloat(gain)>>)
    \o <<"\n">>


(***************************************************************************)
(* The sweep program: sweep_frequency of FrequencyResponseCapture.py.      *)
(***************************************************************************)
VARIABLES
  plan,        \* the arguments start_freq, end_freq, points
  pc,          \* position of the program
  ip,          \* index of the current instrument operation of the phase
  awaiting,    \* a command or query was written and is not yet error-checked
  qresult,     \* the string read by the query in progress (as its number)
  acq,         \* the instrument: measurements of the digitized acquisition
  wgen,        \* the instrument: programmed generator frequency, in mHz
  meas,        \* locals of capture_waveform
  sample,      \* freq1, ampl1, freq2, ampl2, phase_diff of sweep_frequency
  counter, error_cnt, step, curr_freq,
  fp,          \* the data file: state, unflushed lines, lines on disk
  error_string,\* the last reply to ":SYSTem:ERRor?"
  nwrite,      \* number of strings written to the instrument
  dataset,     \* the rows recorded so far: target, sample and gain
  suggested,   \* the printed "Suggested Range"
  freq_arr, phase_arr, gain_arr,   \* arrays of plot_bode
  cutoff_index, hlines,            \* interactivePlot: cutoff and annotations
  prev_run,    \* interactivePlot: what the previous run of it ended with
  exit_code    \* exit status of the process, -1 while it runs

vars == <<plan, pc, ip, awaiting, qresult, error_string, acq, wgen, meas,
          sample, counter,
          error_cnt, step, curr_freq, fp, nwrite, dataset, suggested,
          freq_arr, phase_arr, gain_arr, cutoff_index, hlines, prev_run,
          exit_code>>

plotVars == <<freq_arr, phase_arr, gain_arr, cutoff_index, hlines, prev_run>>

ioVars == <<ip, awaiting, qresult, error_string, acq, wgen, meas, nwrite>>

loopVars == <<counter, error_cnt, step, curr_freq>>

StartFreqs == {100, 140}

EndFreqs == {100, 140}

PointsRange == 0..MaxPoints

\* 10E9 of the validity guard, in units of 20
TenE9 == 500000000

None == [freq1 |-> 0, ampl1 |-> 0, freq2 |-> 0, ampl2 |-> 0, phase |-> 0]

NoRun == [ran |-> FALSE, exit_code |-> -1, cutoff_index |-> -1, hlines |-> <<>>]

NoRange == [lo |-> 0, hi |-> 0, printed |-> FALSE]

\* curr_freq, step and end_freq are compared and added as multiples of
\* 1/Scale Hz, which keeps (end_freq - start_freq) / (points-1) exact.
Scale(points) == IF points >= 2 THEN points - 1 ELSE 1

\* the range divided by points instead of points - 1
StepScaledByPoints(p) ==
  IF p.points >= 2
  THEN ((p.end - p.start) * (p.points - 1)) \div p.points
  ELSE (p.end - p.start) * (p.points - 1)

\* the step with start_freq and end_freq exchanged
StepScaledDown(p) ==
  IF p.points >= 2 THEN p.start - p.end ELSE (p.start - p.end) * (p.points - 1)

StepScaled(p) ==
  IF p.points >= 2 THEN p.end - p.start ELSE (p.end - p.start) * (p.points - 1)

\* round(n/d) to the nearest integer, ties to even, as "%.0f" and "%.3f" do
RoundHalfEven(n, d) ==
  LET q == n \div d
      r == n - q * d
  IN  IF 2 * r < d THEN q
      ELSE IF 2 * r > d THEN q + 1
      ELSE IF q % 2 = 0 THEN q ELSE q + 1

(***************************************************************************)
(* Instrument operations of generate_waveform, autoscale, capture_waveform *)
(* in program order: <<kind, text, measured field>>.                       *)
(***************************************************************************)
GenerateWaveformOps ==
  << <<"cmd", ":WGEN:OUTput 1", "">>,
     <<"cmd", ":WGEN:FUNCtion SIN", "">>,
     <<"cmd", ":WGEN:VOLTage", "">>,
     <<"cmd", ":WGEN:FREQuency", "">>,
     <<"cmd", ":WGEN:VOLTage:OFFset", "">> >>

AutoscaleOps == << <<"cmd", ":AUToscale", "">> >>

CaptureWaveformOps ==
  << <<"cmd", ":SINGLE", "">>,
     <<"cmd", ":ACQuire:TYPE NORMal", "">>,
     <<"query", ":ACQuire:TYPE?", "">>,
     <<"cmd", ":DIGitize CHANnel1,CHANnel2", "">>,
     <<"cmd", ":MEASure:SOURce CHANnel1,CHANnel2", "">>,
     <<"query", ":MEASure:SOURce?", "">>,
     <<"cmd", ":MEASure:FREQuency CHANnel1", "">>,
     <<"query", ":MEASure:FREQuency? CHANnel1", "freq1">>,
     <<"cmd", ":MEASure:VPP CHANnel1", "">>,
     <<"query", ":MEASure:VPP? CHANnel1", "ampl1">>,
     <<"cmd", ":MEASure:FREQuency CHANnel2", "">>,
     <<"query", ":MEASure:FREQuency? CHANnel2", "freq2">>,
     <<"cmd", ":MEASure:VPP CHANnel2", "">>,
     <<"query", ":MEASure:VPP? CHANnel2", "ampl2">>,
     <<"cmd", ":MEASure:PHASe CHANnel2,CHANnel1", "">>,
     <<"query", ":MEASure:PHASe? CHANnel2,CHANnel1", "phase">> >>

SleepOp == <<"sleep", "sleep(3)", "">>

\* lines 298-303: generate, settle, autoscale, capture
PrimingOps ==
  GenerateWaveformOps \o <<SleepOp>> \o AutoscaleOps \o CaptureWaveformOps

\* a step that measures before it autoscales
StepOpsCaptureFirst == GenerateWaveformOps \o CaptureWaveformOps \o AutoscaleOps

\* lines 308-311: generate, autoscale, capture
StepOps == GenerateWaveformOps \o AutoscaleOps \o CaptureWaveformOps

Ops == IF pc = "prime" THEN PrimingOps ELSE StepOps

InIO == pc \in {"prime", "step"}

(***************************************************************************)
(* The instrument.  Channel 1 is wired to the generator output, so a good  *)
(* reading of its frequency is the programmed frequency in units of 20 Hz; *)
(* a reading can also be a fault value.  The measurements of one           *)
(* acquisition are fixed when it is digitized.                             *)
(***************************************************************************)
NearestUnit(mHz) == RoundHalfEven(mHz, 20000)

Acquisitions(n) ==
  { [freq1 |-> n, ampl1 |-> 1, freq2 |-> n, ampl2 |-> 1, phase |-> -45],
    [freq1 |-> n, ampl1 |-> 1, freq2 |-> n, ampl2 |-> 10, phase |-> -90],
    [freq1 |-> n, ampl1 |-> 1, freq2 |-> 2 * n, ampl2 |-> 1, phase |-> 0],
    [freq1 |-> TenE9 + 1, ampl1 |-> 1, freq2 |-> n, ampl2 |-> 1, phase |-> 0],
    [freq1 |-> n, ampl1 |-> TenE9 + 1, freq2 |-> n, ampl2 |-> 1, phase |-> 0],
    [freq1 |-> n, ampl1 |-> 0, freq2 |-> n, ampl2 |-> 1, phase |-> 0],
    [freq1 |-> n, ampl1 |-> -1, freq2 |-> n, ampl2 |-> 1, phase |-> 0] }

FieldOf(s, f) ==
  CASE f = "freq1" -> s.freq1
    [] f = "ampl1" -> s.ampl1
    [] f = "freq2" -> s.freq2
    [] f = "ampl2" -> s.ampl2
    [] f = "phase" -> s.phase
    [] OTHER -> 0

SetField(s, f, v) ==
  CASE f = "freq1" -> [s EXCEPT !.freq1 = v]
    [] f = "ampl1" -> [s EXCEPT !.ampl1 = v]
    [] f = "freq2" -> [s EXCEPT !.freq2 = v]
    [] f = "ampl2" -> [s EXCEPT !.ampl2 = v]
    [] f = "phase" -> [s EXCEPT !.phase = v]
    [] OTHER -> s

(***************************************************************************)
(* Validity guard and gain (lines 314 and 326).                            *)
(***************************************************************************)
\* the guard without its first comparison
IsErroneousNoFreq2(s) == (s.freq1 > TenE9) \/ (s.ampl1 > TenE9)

\* (freq2 > 1.5*freq1) or (freq1 > 10E9) or (ampl1 > 10E9)
IsErroneous(s) ==
  (2 * s.freq2 > 3 * s.freq1) \/ (s.freq1 > TenE9) \/ (s.ampl1 > TenE9)

\* float(ampl2)/float(ampl1) raises ZeroDivisionError for ampl1 = 0, and
\* math.log10 raises ValueError for a ratio that is not positive.
GainDefined(s) == s.ampl1 # 0 /\ s.ampl2 * s.ampl1 > 0

Pow10(k) == IF k = 0 THEN 1 ELSE IF k = 1 THEN 10 ELSE IF k = 2 THEN 100 ELSE 1000

\* log10(p/q) for p/q a power of ten between 1/1000 and 1000
Log10Ratio(p, q) ==
  CHOOSE k \in -3..3 :
    IF k >= 0 THEN Abs(p) = Abs(q) * Pow10(k) ELSE Abs(p) * Pow10(-k) = Abs(q)

\* 10*log10 of the ratio, the gain of a power ratio
GainPower(s) == 10 * Log10Ratio(s.ampl2, s.ampl1)

\* 20*math.log10(float(ampl2)/float(ampl1)), in dB
Gain(s) == 20 * Log10Ratio(s.ampl2, s.ampl1)

\* the line written for an accepted sample (line 327); the sample is in
\* units of 20 and in degrees, the gain and the line are in tenths
RowLine(s, gain) ==
  FormatRow(200 * s.freq1, 200 * s.ampl1, 200 * s.freq2, 200 * s.ampl2,
            10 * s.phase, gain)

(***************************************************************************)
(* The file object: write() buffers, close() flushes.                      *)
(***************************************************************************)
FileWrite(f, line) == [f EXCEPT !.buf = Append(@, line)]

FileClose(f) == [state |-> "closed", buf |-> <<>>, disk |-> f.disk \o f.buf]

\* The process ends with the file never closed: what write() buffered may
\* or may not reach the disk.
FileAbandon(f) ==
  { [state |-> "abandoned", buf |-> <<>>, disk |-> d] :
      d \in {f.disk, f.disk \o f.buf} }

NoFile == [state |-> "none", buf |-> <<>>, disk |-> <<>>]

Init ==
  /\ plan \in [start : StartFreqs, end : EndFreqs, points : PointsRange]
  /\ pc = "entry"
  /\ ip = 0
  /\ awaiting = FALSE
  /\ qresult = 0
  /\ error_string = <<"+", "0", ",", "N", "o">>
  /\ acq = None
  /\ wgen = 0
  /\ meas = None
  /\ sample = None
  /\ counter = 0
  /\ error_cnt = 0
  /\ step = 0
  /\ curr_freq = 0
  /\ fp = NoFile
  /\ nwrite = 0
  /\ dataset = <<>>
  /\ suggested = NoRange
  /\ freq_arr = <<>>
  /\ phase_arr = <<>>
  /\ gain_arr = <<>>
  /\ cutoff_index = -1
  /\ hlines = <<>>
  /\ prev_run = NoRun
  /\ exit_code = -1

\* lines 286-295: the loop variables, the step, the file and its header.
\* points = 1 divides by zero before the file is opened.
Entry ==
  /\ pc = "entry"
  /\ IF plan.points = 1
     THEN /\ pc' = "crash"
          /\ counter' = 1
          /\ error_cnt' = 0
          /\ UNCHANGED <<step, curr_freq, fp, ip>>
     ELSE /\ pc' = "prime"
          /\ ip' = 1
          /\ counter' = 1
          /\ error_cnt' = 0
          /\ step' = StepScaled(plan)
          /\ curr_freq' = plan.start * Scale(plan.points)
          /\ fp' = [state |-> "open", buf |-> <<HeaderLine>>, disk |-> <<>>]
  /\ UNCHANGED <<plan, awaiting, qresult, error_string, acq, wgen, meas, sample,
                 nwrite,
                 dataset, suggested, plotVars, exit_code>>

\* the priming sample handed to the validity guard as a loop sample is
AdvanceToGuard(m) ==
  IF ip < Len(Ops)
  THEN /\ ip' = ip + 1
       /\ UNCHANGED <<pc, sample>>
  ELSE /\ ip' = 0
       /\ sample' = m
       /\ pc' = "classify"

\* The operation at ip is complete: the next one, or the end of the phase.
\* capture_waveform returns its tuple to freq1 .. phase_diff (lines 303, 311).
Advance(m) ==
  IF ip < Len(Ops)
  THEN /\ ip' = ip + 1
       /\ UNCHANGED <<pc, sample>>
  ELSE /\ ip' = 0
       /\ sample' = m
       /\ pc' = IF pc = "prime" THEN "while" ELSE "classify"

\* do_command without its call of check_instrument_errors
SendCommandUnchecked ==
  /\ InIO /\ ~awaiting
  /\ Ops[ip][1] = "cmd"
  /\ nwrite' = nwrite + 1
  /\ wgen' = IF Ops[ip][2] = ":WGEN:FREQuency"
             THEN RoundHalfEven(curr_freq * 1000, Scale(plan.points))
             ELSE wgen
  /\ IF Ops[ip][2] = ":DIGitize CHANnel1,CHANnel2"
     THEN acq' \in Acquisitions(NearestUnit(wgen))
     ELSE acq' = acq
  /\ Advance(meas)
  /\ UNCHANGED <<plan, awaiting, qresult, error_string, meas, loopVars, fp,
                 dataset, suggested, plotVars, exit_code>>

\* myScope.WriteString(command) of do_command (line 64).  ":WGEN:FREQuency"
\* programs the generator with curr_freq to three decimals; ":DIGitize"
\* makes the acquisition the measurements are taken from.
SendCommand ==
  /\ InIO /\ ~awaiting
  /\ Ops[ip][1] = "cmd"
  /\ awaiting' = TRUE
  /\ nwrite' = nwrite + 1
  /\ wgen' = IF Ops[ip][2] = ":WGEN:FREQuency"
             THEN RoundHalfEven(curr_freq * 1000, Scale(plan.points))
             ELSE wgen
  /\ IF Ops[ip][2] = ":DIGitize CHANnel1,CHANnel2"
     THEN acq' \in Acquisitions(NearestUnit(wgen))
     ELSE acq' = acq
  /\ UNCHANGED <<plan, pc, ip, qresult, error_string, meas, sample, loopVars, fp,
                 dataset,
                 suggested, plotVars, exit_code>>

\* WriteString(query) and ReadString() of do_query_string (lines 85-86)
SendQuery ==
  /\ InIO /\ ~awaiting
  /\ Ops[ip][1] = "query"
  /\ awaiting' = TRUE
  /\ nwrite' = nwrite + 1
  /\ qresult' = FieldOf(acq, Ops[ip][3])
  /\ UNCHANGED <<plan, pc, ip, error_string, acq, wgen, meas, sample, loopVars,
                 fp, dataset,
                 suggested, plotVars, exit_code>>

\* One reply to ":SYSTem:ERRor?": no error, an error, nothing.
ErrorReplies ==
  { <<"+", "0", ",", "N", "o">>, <<"-", "1", "1", "3", ",">>, <<>> }

\* an empty reply taken for "no error"
IsNoErrorOrNothing(e) ==
  e = <<>> \/ (Len(e) >= 3 /\ SubSeq(e, 1, 3) = <<"+", "0", ",">>)

\* lines 136-137: the reply is not empty and find("+0,", 0, 3) is not -1
IsNoError(e) == Len(e) >= 3 /\ SubSeq(e, 1, 3) = <<"+", "0", ",">>

\* check_instrument_errors (lines 133-146) after a command or query.  On
\* "+0,No error" the call returns and a measuring query stores
\* float(qresult) (lines 231-255); on anything else, sys.exit(1).
CheckInstrumentErrors ==
  /\ InIO /\ awaiting
  /\ nwrite' = nwrite + 1
  /\ \E e \in ErrorReplies :
       /\ error_string' = e
       /\ IF IsNoError(e)
          THEN /\ awaiting' = FALSE
               /\ meas' = IF Ops[ip][1] = "query"
                          THEN SetField(meas, Ops[ip][3], qresult)
                          ELSE meas
               /\ Advance(meas')
          ELSE /\ pc' = "exit"
               /\ UNCHANGED <<ip, awaiting, meas, sample>>
  /\ UNCHANGED <<plan, qresult, acq, wgen, loopVars, fp, dataset, suggested,
                 plotVars, exit_code>>

\* sleep(3) of line 299
Settle ==
  /\ InIO /\ ~awaiting
  /\ Ops[ip][1] = "sleep"
  /\ Advance(meas)
  /\ UNCHANGED <<plan, awaiting, qresult, error_string, acq, wgen, meas, nwrite,
                 loopVars,
                 fp, dataset, suggested, plotVars, exit_code>>

\* while (curr_freq <= end_freq), line 306.  The model follows a sweep
\* for MaxRows rows and no further.
LoopTest ==
  /\ pc = "while"
  /\ IF curr_freq <= plan.end * Scale(plan.points)
     THEN Len(dataset) < MaxRows /\ pc' = "step" /\ ip' = 1
     ELSE pc' = "close" /\ ip' = ip
  /\ UNCHANGED <<plan, awaiting, qresult, error_string, acq, wgen, meas, sample,
                 nwrite,
                 loopVars, fp, dataset, suggested, plotVars, exit_code>>

\* "Suggested Range: 100Hz - {curr_freq-step:.0f}Hz" (line 322)
SuggestedRange(cf, st, sc) ==
  [lo |-> 100, hi |-> RoundHalfEven(cf - st, sc), printed |-> TRUE]

\* the threshold one later
AbortThresholdLate(cnt) == cnt > 5

\* if (error_cnt > 4), line 319
AbortThreshold(cnt) == cnt > 4

\* an erroneous sample answered by the full step
ErroneousFullStep ==
  /\ pc = "classify"
  /\ IsErroneous(sample)
  /\ error_cnt' = error_cnt + 1
  /\ curr_freq' = curr_freq + step
  /\ IF AbortThreshold(error_cnt')
     THEN /\ suggested' = SuggestedRange(curr_freq', step, Scale(plan.points))
          /\ pc' = "close"
     ELSE /\ suggested' = suggested
          /\ pc' = "while"
  /\ UNCHANGED <<plan, ioVars, sample, counter, step, fp, dataset, plotVars,
                 exit_code>>

\* lines 314-324: an erroneous sample
Erroneous ==
  /\ pc = "classify"
  /\ IsErroneous(sample)
  /\ error_cnt' = error_cnt + 1
  /\ curr_freq' = curr_freq + 2 * Scale(plan.points)
  /\ IF AbortThreshold(error_cnt')
     THEN /\ suggested' = SuggestedRange(curr_freq', step, Scale(plan.points))
          /\ pc' = "close"
     ELSE /\ suggested' = suggested
          /\ pc' = "while"
  /\ UNCHANGED <<plan, ioVars, sample, counter, step, fp, dataset, plotVars,
                 exit_code>>

\* an accepted sample that clears the error counter
AcceptResetsErrors ==
  /\ pc = "classify"
  /\ ~IsErroneous(sample)
  /\ GainDefined(sample)
  /\ fp' = FileWrite(fp, RowLine(sample, 10 * Gain(sample)))
  /\ dataset' = Append(dataset, [target |-> curr_freq, s |-> sample,
                                 gain |-> 10 * Gain(sample)])
  /\ curr_freq' = curr_freq + step
  /\ counter' = counter + 1
  /\ error_cnt' = 0
  /\ pc' = "while"
  /\ UNCHANGED <<plan, ioVars, sample, step, suggested, plotVars, exit_code>>

\* lines 326-330: gain, row, next frequency
Accept ==
  /\ pc = "classify"
  /\ ~IsErroneous(sample)
  /\ GainDefined(sample)
  /\ fp' = FileWrite(fp, RowLine(sample, 10 * Gain(sample)))
  /\ dataset' = Append(dataset, [target |-> curr_freq, s |-> sample,
                                 gain |-> 10 * Gain(sample)])
  /\ curr_freq' = curr_freq + step
  /\ counter' = counter + 1
  /\ pc' = "while"
  /\ UNCHANGED <<plan, ioVars, sample, error_cnt, step, suggested, plotVars,
                 exit_code>>

\* line 326 raising ZeroDivisionError or ValueError
GainFails ==
  /\ pc = "classify"
  /\ ~IsErroneous(sample)
  /\ ~GainDefined(sample)
  /\ pc' = "crash"
  /\ UNCHANGED <<plan, ioVars, sample, loopVars, fp, dataset, suggested,
                 plotVars, exit_code>>

\* fp.close(), line 331
Close ==
  /\ pc = "close"
  /\ fp' = FileClose(fp)
  /\ pc' = "plot"
  /\ UNCHANGED <<plan, ioVars, sample, loopVars, dataset, suggested, plotVars,
                 exit_code>>

(***************************************************************************)
(* Reading the data file back: the parse loops of the two plot_bode.       *)
(***************************************************************************)
NoArrays == [freq |-> <<>>, phase |-> <<>>, gain |-> <<>>]

\* FrequencyResponseCapture.plot_bode, lines 351-358: the fields are
\* unpacked, then converted and appended one array at a time.
ParseLineCapture(a, lin) ==
  LET fields == SplitCommaSpace(StripChars(lin, {"\n"}))
  IN  IF Len(fields) # 6 THEN a
      ELSE LET f == ParseFloat(fields[1])
               p == ParseFloat(fields[5])
               g == ParseFloat(fields[6])
               a1 == [a EXCEPT !.freq = Append(@, f.val)]
               a2 == [a1 EXCEPT !.phase = Append(@, p.val)]
               a3 == [a2 EXCEPT !.gain = Append(@, g.val)]
           IN  IF ~f.ok THEN a
               ELSE IF ~p.ok THEN a1
               ELSE IF ~g.ok THEN a2
               ELSE a3

\* interactivePlot.plot_bode, lines 49-56: all six fields are converted
\* while unpacking, before anything is appended.
ParseLineInteractive(a, lin) ==
  LET fields == SplitCommaSpace(StripChars(lin, {"\n"}))
  IN  IF Len(fields) # 6 THEN a
      ELSE IF \E i \in 1..6 : ~ParseFloat(fields[i]).ok THEN a
      ELSE [freq |-> Append(a.freq, ParseFloat(fields[1]).val),
            phase |-> Append(a.phase, ParseFloat(fields[5]).val),
            gain |-> Append(a.gain, ParseFloat(fields[6]).val)]

RECURSIVE ParseCapture(_, _)
ParseCapture(a, lines) ==
  IF lines = <<>> THEN a
  ELSE ParseCapture(ParseLineCapture(a, Head(lines)), Tail(lines))

RECURSIVE ParseInteractive(_, _)
ParseInteractive(a, lines) ==
  IF lines = <<>> THEN a
  ELSE ParseInteractive(ParseLineInteractive(a, Head(lines)), Tail(lines))

\* plot_bode(fname) of line 334 (lines 344-387), then sys.exit() of main
PlotBode ==
  /\ pc = "plot"
  /\ LET a == ParseCapture(NoArrays, fp.disk)
     IN  /\ freq_arr' = a.freq
         /\ phase_arr' = a.phase
         /\ gain_arr' = a.gain
  /\ pc' = "done"
  /\ exit_code' = 0
  /\ UNCHANGED <<plan, ioVars, sample, loopVars, fp, dataset, suggested,
                 cutoff_index, hlines, prev_run>>

\* The process ends by sys.exit(1) of check_instrument_errors or by an
\* uncaught exception; fp.close() of line 331 has not run.
ProcessExit ==
  /\ pc \in {"exit", "crash"}
  /\ pc' = "dead"
  /\ exit_code' = 1
  /\ fp' \in (IF fp.state = "open" THEN FileAbandon(fp) ELSE {fp})
  /\ UNCHANGED <<plan, ioVars, sample, loopVars, dataset, suggested, plotVars>>

Next ==
  \/ Entry
  \/ SendCommand
  \/ SendQuery
  \/ CheckInstrumentErrors
  \/ Settle
  \/ LoopTest
  \/ Erroneous
  \/ Accept
  \/ GainFails
  \/ Close
  \/ PlotBode
  \/ ProcessExit

Spec == Init /\ [][Next]_vars

(***************************************************************************)
(* interactivePlot.py: main and plot_bode with the cutoff search.          *)
(***************************************************************************)
sweepVars == <<plan, ioVars, sample, loopVars, suggested>>

\* max(gain_arr): the first largest element
RECURSIVE PyMax(_)
PyMax(a) ==
  IF Len(a) = 1 THEN a[1]
  ELSE LET m == PyMax(SubSeq(a, 1, Len(a) - 1))
       IN  IF a[Len(a)] > m THEN a[Len(a)] ELSE m

\* the last element with the least key
RECURSIVE PyMinKeyLast(_, _)
PyMinKeyLast(a, t) ==
  IF Len(a) = 1 THEN a[1]
  ELSE LET m == PyMinKeyLast(SubSeq(a, 1, Len(a) - 1), t)
       IN  IF Abs(a[Len(a)] - t) <= Abs(m - t) THEN a[Len(a)] ELSE m

\* min(a, key=lambda x: abs(x - t)): the first element with the least key
RECURSIVE PyMinKey(_, _)
PyMinKey(a, t) ==
  IF Len(a) = 1 THEN a[1]
  ELSE LET m == PyMinKey(SubSeq(a, 1, Len(a) - 1), t)
       IN  IF Abs(a[Len(a)] - t) < Abs(m - t) THEN a[Len(a)] ELSE m

\* a.index(v): the first position holding v, counted from 0
PyIndex(a, v) ==
  (CHOOSE i \in 1..Len(a) : a[i] = v /\ \A j \in 1..(i - 1) : a[j] # v) - 1

\* line 90; 3 dB is 30 tenths
CutoffIndex(gains) == PyIndex(gains, PyMinKey(gains, PyMax(gains) - 30))

\* lines 107-119: a data file is listed and selected
Select ==
  /\ pc = "imain"
  /\ pc' = "iread"
  /\ UNCHANGED <<sweepVars, fp, dataset, plotVars, exit_code>>

\* line 118: the input is no number of a listed file
BadInput ==
  /\ pc = "imain"
  /\ pc' = "iexcept"
  /\ UNCHANGED <<sweepVars, fp, dataset, plotVars, exit_code>>

\* lines 42-56
ReadFile ==
  /\ pc = "iread"
  /\ LET a == ParseInteractive(NoArrays, fp.disk)
     IN  /\ freq_arr' = a.freq
         /\ phase_arr' = a.phase
         /\ gain_arr' = a.gain
  /\ pc' = "ilayout"
  /\ UNCHANGED <<sweepVars, fp, dataset, cutoff_index, hlines, prev_run,
                 exit_code>>

\* lines 65-87: freq_arr[0] and freq_arr[-1] raise IndexError on no rows
Layout ==
  /\ pc = "ilayout"
  /\ pc' = IF freq_arr = <<>> THEN "iexcept" ELSE "icutoff"
  /\ UNCHANGED <<sweepVars, fp, dataset, plotVars, exit_code>>

\* lines 90-92: the cutoff index and the two "-3dB Line" annotations
Cutoff ==
  /\ pc = "icutoff"
  /\ cutoff_index' = CutoffIndex(gain_arr)
  /\ hlines' = <<gain_arr[cutoff_index' + 1], phase_arr[cutoff_index' + 1]>>
  /\ pc' = "ishow"
  /\ UNCHANGED <<sweepVars, fp, dataset, freq_arr, phase_arr, gain_arr,
                 prev_run, exit_code>>

\* line 97, and main returns
Show ==
  /\ pc = "ishow"
  /\ pc' = "idone"
  /\ exit_code' = 0
  /\ UNCHANGED <<sweepVars, fp, dataset, plotVars>>

\* lines 120-122: "[ERROR] Invalid Input!" and exit(1)
Except ==
  /\ pc = "iexcept"
  /\ pc' = "idone"
  /\ exit_code' = 1
  /\ UNCHANGED <<sweepVars, fp, dataset, plotVars>>

\* the program is run again on the same file
RunAgain ==
  /\ pc = "idone"
  /\ pc' = "imain"
  /\ prev_run' = [ran |-> TRUE, exit_code |-> exit_code,
                  cutoff_index |-> cutoff_index, hlines |-> hlines]
  /\ freq_arr' = <<>>
  /\ phase_arr' = <<>>
  /\ gain_arr' = <<>>
  /\ cutoff_index' = -1
  /\ hlines' = <<>>
  /\ exit_code' = -1
  /\ UNCHANGED <<sweepVars, fp, dataset>>

(***************************************************************************)
(* Data files given to interactivePlot: a dataset of up to MaxData rows    *)
(* persisted as sweep_frequency writes it (header, one line per row),      *)
(* as it is or without header or with one malformed line.                  *)
(***************************************************************************)
GainValues == {0, -20, -30, -40}

\* the gains 0, -1, -3, -6, -9 dB
ExampleGains == <<0, -10, -30, -60, -90>>

DataRow(i, g) ==
  [target |-> 0,
   s |-> [freq1 |-> 4 + i, ampl1 |-> 1, freq2 |-> 4 + i, ampl2 |-> 1,
          phase |-> -15 * i],
   gain |-> g]

DataRows(gains) == [i \in 1..Len(gains) |-> DataRow(i, gains[i])]

RowLines(rows) == [i \in 1..Len(rows) |-> RowLine(rows[i].s, rows[i].gain)]

\* five columns
ShortLine ==
  JoinCommaSpace(<<FormatFloat(1000), FormatFloat(200), FormatFloat(1000),
                   FormatFloat(200), FormatFloat(0)>>) \o <<"\n">>

\* six columns, the phase is no number
TextLine ==
  JoinCommaSpace(<<FormatFloat(1000), FormatFloat(200), FormatFloat(1000),
                   FormatFloat(200), <<"x">>, FormatFloat(0)>>) \o <<"\n">>

FileVariants == {"clean", "noheader", "short", "text"}

FileOf(rows, variant) ==
  LET body == RowLines(rows)
      k == IF Len(body) = 0 THEN 0 ELSE 1
      bad == IF variant = "short" THEN ShortLine ELSE TextLine
  IN  IF variant = "clean" THEN <<HeaderLine>> \o body
      ELSE IF variant = "noheader" THEN body
      ELSE <<HeaderLine>> \o SubSeq(body, 1, k) \o <<bad>>
             \o SubSeq(body, k + 1, Len(body))

GainSeqs == UNION { [1..n -> GainValues] : n \in 0..MaxData } \cup {ExampleGains}

\* a data file is in the Data directory, no program has run on it yet
FileGiven ==
  /\ plan = [start |-> 100, end |-> 140, points |-> 2]
  /\ ip = 0
  /\ awaiting = FALSE
  /\ qresult = 0
  /\ error_string = <<"+", "0", ",", "N", "o">>
  /\ acq = None
  /\ wgen = 0
  /\ meas = None
  /\ sample = None
  /\ counter = 0
  /\ error_cnt = 0
  /\ step = 0
  /\ curr_freq = 0
  /\ \E gains \in GainSeqs, variant \in FileVariants :
       /\ dataset = DataRows(gains)
       /\ fp = [state |-> "closed", buf |-> <<>>,
                disk |-> FileOf(dataset, variant)]
  /\ nwrite = 0
  /\ suggested = NoRange
  /\ freq_arr = <<>>
  /\ phase_arr = <<>>
  /\ gain_arr = <<>>
  /\ cutoff_index = -1
  /\ hlines = <<>>
  /\ prev_run = NoRun
  /\ exit_code = -1

InitPlot == pc = "imain" /\ FileGiven

NextPlot ==
  \/ Select
  \/ BadInput
  \/ ReadFile
  \/ Layout
  \/ Cutoff
  \/ Show
  \/ Except
  \/ RunAgain

SpecPlot == InitPlot /\ [][NextPlot]_vars

(***************************************************************************)
(* The two parse loops on the same data files: plot_bode of                *)
(* FrequencyResponseCapture.py and plot_bode of interactivePlot.py.        *)
(***************************************************************************)
InitRead == pc \in {"cread", "iread"} /\ FileGiven

\* FrequencyResponseCapture.plot_bode(fn), lines 344-358
ReadCapture ==
  /\ pc = "cread"
  /\ LET a == ParseCapture(NoArrays, fp.disk)
     IN  /\ freq_arr' = a.freq
         /\ phase_arr' = a.phase
         /\ gain_arr' = a.gain
  /\ pc' = "clayout"
  /\ UNCHANGED <<sweepVars, fp, dataset, cutoff_index, hlines, prev_run,
                 exit_code>>

NextRead ==
  \/ ReadCapture
  \/ ReadFile

SpecRead == InitRead /\ [][NextRead]_vars

(***************************************************************************)
(* Properties.                                                             *)
(***************************************************************************)
Ended == pc \in {"done", "dead"}

PersistedLines == <<HeaderLine>> \o RowLines(dataset)

IsPrefix(a, b) == Len(a) <= Len(b) /\ SubSeq(b, 1, Len(a)) = a

\* C1: a sweep plan with points >= 2 (and start_freq <= end_freq) whose
\* samples all pass the validity guard never holds more than points rows,
\* and holds exactly points rows when sweep_frequency has returned.
C1_FaultFreeRowCount ==
  (plan.points >= 2 /\ plan.start <= plan.end /\ error_cnt = 0
     /\ pc \notin {"entry", "imain"})
    => /\ Len(dataset) <= plan.points
       /\ (pc = "done" => Len(dataset) = plan.points)

\* C2: no recorded row comes from an erroneous sample (freq2 > 1.5*freq1, or
\* freq1 > 10^10, or ampl1 > 10^10), and the file holds no other lines than
\* the header and the recorded rows.
C2_NoErroneousRow ==
  /\ \A i \in 1..Len(dataset) :
       LET r == dataset[i].s
       IN  ~(2 * r.freq2 > 3 * r.freq1 \/ r.freq1 > TenE9 \/ r.ampl1 > TenE9)
  /\ IsPrefix(fp.disk \o fp.buf, PersistedLines)

\* an erroneous sample with freq2 = 2*freq1 was handled after a row was recorded
C2_Witness ==
  /\ pc = "while"
  /\ error_cnt >= 1
  /\ Len(dataset) >= 1
  /\ sample.freq2 = 2 * sample.freq1
  /\ sample.freq1 > 0

\* C3: once error_cnt has reached 5 the sweep is aborted: the program is at
\* fp.close() or after it, where no instrument operation is left, the closed
\* file holds the header and every recorded row, and plot_bode has read them.
C3_AbortKeepsRows ==
  error_cnt >= 5
    => /\ pc \in {"close", "plot", "done"}
       /\ suggested.printed
       /\ (pc \in {"plot", "done"}
             => fp.state = "closed" /\ fp.disk = PersistedLines)
       /\ (pc = "done"
             => /\ freq_arr = [i \in 1..Len(dataset) |-> 200 * dataset[i].s.freq1]
                /\ gain_arr = [i \in 1..Len(dataset) |-> dataset[i].gain])

\* aborted with one to four rows recorded, and plotted
C3_Witness ==
  /\ error_cnt = 5
  /\ pc = "done"
  /\ Len(dataset) \in 1..4
  /\ Len(freq_arr) = Len(dataset)

\* C4: a sample that passes the guard with ampl1 <= 0 is handled as an
\* erroneous one: error_cnt + 1, curr_freq nudged, no row, the sweep goes on.
C4_NonPositiveAmplitudeRetried ==
  [][(pc = "classify" /\ plan.points >= 2 /\ ~IsErroneous(sample)
        /\ sample.ampl1 <= 0)
       => (/\ error_cnt' = error_cnt + 1
           /\ curr_freq' = curr_freq + 2 * Scale(plan.points)
           /\ dataset' = dataset
           /\ pc' \in {"while", "close"})]_vars

\* C5: whenever the last reply to the error query is an error or nothing the
\* program is leaving by sys.exit(1), and from then on nothing is written to
\* the instrument, no row is recorded, error_cnt and curr_freq stay.
C5_TransportErrorFatal ==
  /\ []((error_string = <<>> \/ SubSeq(error_string, 1, 3) # <<"+", "0", ",">>)
          => pc \in {"exit", "dead"})
  /\ [][(pc \in {"exit", "dead"})
          => (/\ pc' = "dead"
              /\ nwrite' = nwrite
              /\ dataset' = dataset
              /\ fp'.disk \o fp'.buf \in {fp.disk \o fp.buf, fp.disk}
              /\ error_cnt' = error_cnt
              /\ curr_freq' = curr_freq)]_vars

\* a transport error in a step after a row was recorded
C5_Witness ==
  /\ pc = "dead"
  /\ error_string = <<>>
  /\ Len(dataset) >= 1
  /\ error_cnt >= 1

\* C6: however the sweep ends once the file was opened, the file is closed
\* and holds the header and exactly the recorded rows.
C6_FileClosedOnEveryEnd ==
  (Ended /\ plan.points >= 2 /\ fp.state # "none")
    => fp.state = "closed" /\ fp.disk = PersistedLines

\* C7: the suggested range printed on abort runs from start_freq to the
\* target frequency of the last recorded row.
C7_SuggestedRange ==
  (suggested.printed /\ plan.points >= 2 /\ Len(dataset) >= 1)
    => /\ suggested.lo = plan.start
       /\ suggested.hi * Scale(plan.points) = dataset[Len(dataset)].target

\* C8: with two or more rows read, cutoff_index is the least index whose gain
\* is nearest to (largest gain - 3 dB), the two annotations are the gain and
\* the phase at that index, and gains 0, -1, -3, -6, -9 give index 2.
C8_Distance(g, i) ==
  LET ref == CHOOSE m \in {g[j] : j \in 1..Len(g)} : \A j \in 1..Len(g) : g[j] <= m
  IN  Abs(g[i] - (ref - 30))

C8_CutoffSelection ==
  (pc \in {"ishow", "idone"} /\ cutoff_index # -1 /\ Len(gain_arr) >= 2)
    => /\ \A j \in 1..Len(gain_arr) :
            C8_Distance(gain_arr, cutoff_index + 1) <= C8_Distance(gain_arr, j)
       /\ \A j \in 1..cutoff_index :
            C8_Distance(gain_arr, j) > C8_Distance(gain_arr, cutoff_index + 1)
       /\ hlines = <<gain_arr[cutoff_index + 1], phase_arr[cutoff_index + 1]>>
       /\ (gain_arr = ExampleGains => cutoff_index = 2)

\* the example dataset analysed
C8_Witness ==
  /\ pc = "idone"
  /\ gain_arr = ExampleGains
  /\ cutoff_index = 2
  /\ hlines = <<-30, -450>>

\* a tie between two different gains, the first one taken
C8_TieWitness ==
  /\ pc = "idone"
  /\ gain_arr = <<0, -20, -40>>
  /\ cutoff_index = 1

\* C9: with fewer than two rows read no cutoff is reported, and the run ends
\* with an error.
C9_TooFewRowsIsError ==
  (pc \in {"icutoff", "ishow", "idone"} /\ Len(gain_arr) <= 1)
    => /\ cutoff_index = -1
       /\ (pc = "idone" => exit_code = 1)

\* C10: reading a persisted dataset (header, one line per row) back gives the
\* frequencies, phases and gains of its rows in order, the cutoff found on
\* them is the one of the original rows, and a second run finds it again.
C10_Original ==
  [freq |-> [i \in 1..Len(dataset) |-> 200 * dataset[i].s.freq1],
   phase |-> [i \in 1..Len(dataset) |-> 10 * dataset[i].s.phase],
   gain |-> [i \in 1..Len(dataset) |-> dataset[i].gain]]

C10_ReloadSameCutoff ==
  fp.disk = PersistedLines
    => /\ (pc \in {"ilayout", "icutoff", "ishow"}
             => /\ freq_arr = C10_Original.freq
                /\ phase_arr = C10_Original.phase
                /\ gain_arr = C10_Original.gain)
       /\ (pc = "ishow"
             => /\ cutoff_index = CutoffIndex(C10_Original.gain)
                /\ hlines = <<C10_Original.gain[cutoff_index + 1],
                              C10_Original.phase[cutoff_index + 1]>>)
       /\ (pc = "idone" /\ exit_code = 0 /\ prev_run.ran /\ prev_run.exit_code = 0
             => /\ cutoff_index = prev_run.cutoff_index
                /\ hlines = prev_run.hlines)

\* a dataset of three rows or more analysed a second time
C10_Witness ==
  /\ fp.disk = PersistedLines
  /\ Len(dataset) >= 3
  /\ pc = "idone"
  /\ exit_code = 0
  /\ prev_run.ran
  /\ prev_run.exit_code = 0
  /\ cutoff_index >= 1
  /\ hlines[2] < 0

\* C11: a plan with points < 2 is never swept: no sweep step is executed and
\* no row is recorded for it.
C11_SmallPlanRejected ==
  plan.points < 2
    => /\ pc \notin {"step", "classify"}
       /\ dataset = <<>>

\* C12: every recorded row with ampl1 > 0 and ampl2 = 10^k * ampl1 has the
\* gain 20*k dB (0 dB for k = 0, 20 dB for k = 1), and the gain field of its
\* line in the file reads back as that value.
C12_GainOfRatio ==
  \A i \in 1..Len(dataset) :
    LET r == dataset[i]
        lines == fp.disk \o fp.buf
    IN  r.s.ampl1 > 0
          => \A k \in 0..3 :
               r.s.ampl2 = Pow10(k) * r.s.ampl1
                 => /\ r.gain = 10 * 20 * k
                    /\ i + 1 <= Len(lines)
                         => ParseFloat(SplitCommaSpace(
                              StripChars(lines[i + 1], {"\n"}))[6]).val = 10 * 20 * k

\* a row of ratio 1 and a row of ratio 10 are recorded
C12_Witness ==
  /\ Len(dataset) >= 2
  /\ \E i, j \in 1..Len(dataset) :
       /\ dataset[i].s.ampl1 > 0 /\ dataset[i].s.ampl2 = dataset[i].s.ampl1
       /\ dataset[i].gain = 0
       /\ dataset[j].s.ampl1 > 0 /\ dataset[j].s.ampl2 = 10 * dataset[j].s.ampl1
       /\ dataset[j].gain = 200
  /\ fp.state = "closed"

\* C13: the loop ends for every plan with points >= 2: no pass of the loop
\* body comes back to the loop test with curr_freq and error_cnt, the two
\* variables that decide the end of the loop, as they were before the pass.
C13_LoopProgress ==
  [][(pc = "classify" /\ plan.points >= 2 /\ pc' = "while")
       => <<curr_freq', error_cnt'>> # <<curr_freq, error_cnt>>]_vars

\* C14: error_cnt never decreases, recording a row leaves it as it is, and
\* once it has reached 5 the sweep is aborted, whatever rows were recorded
\* between the erroneous samples.
C14_ErrorCountCumulative ==
  /\ [][error_cnt' >= error_cnt]_vars
  /\ [][(pc = "classify" /\ Len(dataset') > Len(dataset))
          => error_cnt' = error_cnt]_vars
  /\ [](error_cnt >= 5 => pc \in {"close", "plot", "done"})

\* aborted by five erroneous samples, some before and some after a row
C14_Witness ==
  /\ plan.points >= 2
  /\ error_cnt = 5
  /\ pc = "close"
  /\ Len(dataset) = 1
  /\ dataset[1].target > plan.start * Scale(plan.points)
  /\ curr_freq > dataset[1].target + step

\* C15: handling an erroneous sample adds 1 to error_cnt and 2 Hz to
\* curr_freq, and leaves the rows, the file, counter and step as they were.
C15_ErroneousFrame ==
  [][(pc = "classify" /\ IsErroneous(sample))
       => (/\ error_cnt' = error_cnt + 1
           /\ curr_freq' = curr_freq + 2 * Scale(plan.points)
           /\ dataset' = dataset
           /\ fp' = fp
           /\ counter' = counter
           /\ step' = step
           /\ plan' = plan
           /\ nwrite' = nwrite)]_vars

\* an erroneous sample handled after one row, in a plan whose step is not 2 Hz
C15_Witness ==
  /\ pc = "while"
  /\ IsErroneous(sample)
  /\ error_cnt = 1
  /\ Len(dataset) = 1
  /\ counter = 2
  /\ step > 2 * Scale(plan.points)
  /\ curr_freq = dataset[1].target + step + 2 * Scale(plan.points)

\* C16: at the loop test that follows an erroneous sample which did not
\* abort the sweep (start_freq < end_freq, points >= 2), the loop goes on to
\* a step at the nudged frequency.
C16_ErroneousRetried ==
  [][(pc = "while" /\ plan.points >= 2 /\ plan.start < plan.end
        /\ error_cnt >= 1 /\ IsErroneous(sample))
       => pc' = "step"]_vars

\* C17: every write to the instrument is either a command or query sent
\* while none is unchecked, or the error query of the one just sent; the
\* program moves to its next operation only when that error query was
\* answered "+0,...", and leaves by sys.exit(1) otherwise.
C17_NoErrorReply(e) == Len(e) >= 3 /\ SubSeq(e, 1, 3) = <<"+", "0", ",">>

C17_CommandThenErrorCheck ==
  /\ [][nwrite' # nwrite
          => (/\ nwrite' = nwrite + 1
              /\ \/ ~awaiting /\ awaiting' /\ ip' = ip /\ pc' = pc
                 \/ awaiting /\ ~awaiting' /\ C17_NoErrorReply(error_string')
                 \/ awaiting /\ ~C17_NoErrorReply(error_string') /\ pc' = "exit")]_vars
  /\ [][(pc \in {"prime", "step"} /\ ip' # ip /\ Ops[ip][1] # "sleep")
          => (/\ awaiting /\ ~awaiting'
              /\ nwrite' = nwrite + 1
              /\ C17_NoErrorReply(error_string'))]_vars

\* the last query of the second step is sent and not yet checked; each of the
\* 65 operations before it took two writes
C17_Witness ==
  /\ pc = "step"
  /\ awaiting
  /\ Ops[ip][2] = ":MEASure:PHASe? CHANnel2,CHANnel1"
  /\ Len(dataset) = 1
  /\ error_cnt = 0
  /\ nwrite = 2 * 65 + 1

\* C18: whenever the program is at an operation of capture_waveform, in
\* priming or in a step, the generator was programmed before in this phase
\* with the current curr_freq and :AUToscale was completed after that; in
\* priming the sleep lies between the two.
C18_ProgramAutoscaleMeasure ==
  (pc \in {"prime", "step"}
     /\ \E c \in 1..Len(CaptureWaveformOps) : Ops[ip] = CaptureWaveformOps[c])
    => /\ \E i, j \in 1..(ip - 1) :
            /\ i < j
            /\ Ops[i][2] = ":WGEN:FREQuency"
            /\ Ops[j][2] = ":AUToscale"
            /\ pc = "prime" => \E k \in (i + 1)..(j - 1) : Ops[k][1] = "sleep"
       /\ wgen = RoundHalfEven(curr_freq * 1000, Scale(plan.points))

\* a measuring query of a step at a frequency above start_freq
C18_Witness ==
  /\ pc = "step"
  /\ Ops[ip][3] = "ampl2"
  /\ awaiting
  /\ curr_freq > plan.start * Scale(plan.points)
  /\ wgen > plan.start * 1000

C20_MalformedRowsSkippedWhole ==
  pc \in {"clayout", "ilayout"}
    => /\ Len(freq_arr) = Len(phase_arr)
       /\ Len(phase_arr) = Len(gain_arr)
       /\ freq_arr = [i \in 1..Len(dataset) |-> 200 * dataset[i].s.freq1]
       /\ phase_arr = [i \in 1..Len(dataset) |-> 10 * dataset[i].s.phase]
       /\ gain_arr = [i \in 1..Len(dataset) |-> dataset[i].gain]

\* C21: priming records no row and leaves error_cnt, curr_freq, counter and
\* the file as they are; it ends at the loop test with curr_freq =
\* start_freq, error_cnt = 0 and no row, whatever the sample; the validity
\* guard is only reached from a step, with the sample digitized in a step.
C21_PrimingHasNoEffect ==
  /\ [][pc = "prime"
          => (/\ pc' \in {"prime", "while", "exit"}
              /\ dataset' = dataset
              /\ fp' = fp
              /\ error_cnt' = error_cnt
              /\ curr_freq' = curr_freq
              /\ counter' = counter)]_vars
  /\ [][(pc = "prime" /\ pc' = "while")
          => (/\ curr_freq' = plan.start * Scale(plan.points)
              /\ error_cnt' = 0
              /\ dataset' = <<>>
              /\ fp'.disk \o fp'.buf = <<HeaderLine>>)]_vars
  /\ [][pc' = "classify" => (pc = "step" /\ sample' = acq)]_vars
  /\ []((pc = "step" /\ dataset = <<>> /\ error_cnt = 0)
          => curr_freq = plan.start * Scale(plan.points))

\* an erroneous priming sample was captured, and the first step is being
\* taken at start_freq
C21_Witness ==
  /\ pc = "step"
  /\ ip = 1
  /\ IsErroneous(sample)
  /\ error_cnt = 0
  /\ dataset = <<>>
  /\ counter = 1
  /\ curr_freq = plan.start * Scale(plan.points)

\* C22: in a sweep with points >= 2 and start_freq < end_freq there are never
\* more than points rows, and the loop never starts more than points + 5
\* steps; the steps started are counted by the writes to the instrument,
\* two for each command or query of priming and of each step.
C22_PrimingWrites == 2 * (Len(PrimingOps) - 1)

C22_StepWrites == 2 * Len(StepOps)

C22_StepsStarted ==
  IF nwrite <= C22_PrimingWrites THEN 0
  ELSE (nwrite - C22_PrimingWrites + C22_StepWrites - 1) \div C22_StepWrites

C22_BoundedWork ==
  (plan.points >= 2 /\ plan.start < plan.end)
    => /\ Len(dataset) <= plan.points
       /\ C22_StepsStarted <= plan.points + 5
       /\ C22_StepsStarted <= Len(dataset) + error_cnt + 1

\* aborted after six steps: one row and five erroneous samples
C22_Witness ==
  /\ plan.points >= 2
  /\ plan.start < plan.end
  /\ pc = "done"
  /\ Len(dataset) = 1
  /\ error_cnt = 5
  /\ C22_StepsStarted = 6

=============================================================================
